---- MODULE Spec2Model ----
(***************************************************************************)
(* Model of Buffer (code/buffer/buffer.cpp): a resizable byte store with a *)
(* read cursor and a write cursor, appended to by the application and      *)
(* filled from / drained to a file descriptor.                             *)
(*                                                                         *)
(* A buffer value is the record [buffer_, readPos_, writePos_].  Every     *)
(* member function is an operator from the buffer before the call to the   *)
(* buffer after it; the actions Call... apply them to the one Buffer       *)
(* object of the model and record the call in op.  Offsets are 0-based as  *)
(* in the source; buffer_[i + 1] is the byte at offset i.                  *)
(*                                                                         *)
(* assert() is taken as compiled in (the source defines no NDEBUG): a      *)
(* failed assertion ends the process, pc = "aborted".  A call that would   *)
(* read or write outside buffer_ has undefined behaviour: the model makes  *)
(* no statement about what follows it, pc = "undefined".                   *)
(***************************************************************************)
EXTENDS Integers, Sequences, FiniteSets, TLC

\* buffer_, readPos_, writePos_: the members of the one Buffer object
\* pc: "run", or how the process ended ("aborted", "undefined")
\* op: the last call: its name, arguments, result and what it did
\* fifo: the bytes put into the buffer and not yet taken out, in order
\* runOrig, runSent: for the current run of consecutive WriteFd calls, the
\*   readable content when it began and the bytes the descriptor has accepted
VARIABLES buffer_, readPos_, writePos_, pc, op, fifo, runOrig, runSent

vars == <<buffer_, readPos_, writePos_, pc, op, fifo, runOrig, runSent>>

(* ------------------------------ bounds -------------------------------- *)
\* largest initBuffersize given to the constructor
MaxInit == 2
\* calls that would resize buffer_ beyond MaxSize bytes are not explored
MaxSize == 3
\* longest string appended, longest len given to EnsureWriteable/HasWritten/Retrieve
MaxLen == 2
\* HasWritten is not explored further than this many bytes past the end of the store
MaxOver == 1

\* payload bytes; 0 is the byte a new or cleared store holds
Byte == {1, 2}
\* errno values a failed readv/write leaves (EINTR, EAGAIN)
Errnos == {4, 11}

\* size_t arithmetic is modulo 2^64; every length of the model is far below
\* 2^30, which stands for it so that the wrapped values stay representable
SizeMod == 2^30
\* sizeof(buff) in ReadFd, 65535 in the source, scaled to the model's lengths
BuffSize == 2

Min(a, b) == IF a <= b THEN a ELSE b

Zeros(n) == [i \in 1..n |-> 0]

\* all byte strings of length at most k
Strings(k) == UNION {[1..n -> Byte] : n \in 0..k}

Take(s, n) == SubSeq(s, 1, Min(n, Len(s)))
Drop(s, n) == SubSeq(s, n + 1, Len(s))

(* --------------------------- the buffer ------------------------------- *)
Self == [buffer_ |-> buffer_, readPos_ |-> readPos_, writePos_ |-> writePos_]

\* Buffer::Buffer(initBuffersize)
Buffer(initBuffersize) ==
    [buffer_ |-> Zeros(initBuffersize), readPos_ |-> 0, writePos_ |-> 0]

ReadableBytes(b) == (b.writePos_ - b.readPos_) % SizeMod

WritableBytes(b) == (Len(b.buffer_) - b.writePos_) % SizeMod

PrependableBytes(b) == b.readPos_

\* Peek() as an offset from BeginPtr_()
Peek(b) == b.readPos_

\* BeginWrite() as an offset from BeginPtr_()
BeginWrite(b) == b.writePos_

\* the cursors lie inside the store, in order
InBounds(b) == 0 <= b.readPos_ /\ b.readPos_ <= b.writePos_ /\ b.writePos_ <= Len(b.buffer_)

\* the bytes at offsets [from, to) of s
Bytes(s, from, to) == [i \in 1..(to - from) |-> s[from + i]]

\* the readable region [readPos_, writePos_)
Readable(b) == Bytes(b.buffer_, b.readPos_, b.writePos_)

\* std::copy(first, last, d_first) within one array: element by element, front to back
RECURSIVE StdCopyWithin(_, _, _, _)
StdCopyWithin(s, first, last, dst) ==
    IF first >= last THEN s
    ELSE StdCopyWithin([s EXCEPT ![dst + 1] = s[first + 1]], first + 1, last, dst + 1)

\* std::copy(str, str + len, dst) from a source outside the store
StdCopyInto(s, str, dst) ==
    [i \in 1..Len(s) |-> IF dst < i /\ i <= dst + Len(str) THEN str[i - dst] ELSE s[i]]

\* std::vector<char>::resize(n): truncates, or extends with zero bytes
Resize(s, n) == IF n <= Len(s) THEN SubSeq(s, 1, n) ELSE s \o Zeros(n - Len(s))

\* Retrieve's assertion compiled out
RetrieveAssert_Off(b, len) == TRUE

\* assert(len <= ReadableBytes()) of Retrieve
RetrieveAssert(b, len) == len <= ReadableBytes(b)

\* assert(Peek() <= end) of RetrieveUntil
RetrieveUntilAssert(b, end) == Peek(b) <= end

\* assert(str) of Append: the source pointer is not null
AppendAssert(null) == ~null

\* Retrieve rewinding both cursors once everything readable has been taken
Retrieve_ResetsWhenEmpty(b, len) ==
    IF len = ReadableBytes(b) THEN [b EXCEPT !.readPos_ = 0, !.writePos_ = 0]
    ELSE [b EXCEPT !.readPos_ = (@ + len) % SizeMod]

\* Buffer::Retrieve, after its assertion
Retrieve(b, len) == [b EXCEPT !.readPos_ = (@ + len) % SizeMod]

\* RetrieveAll releasing the store instead of zeroing it
RetrieveAll_Clears(b) == [buffer_ |-> <<>>, readPos_ |-> 0, writePos_ |-> 0]

\* RetrieveAll rewinding the cursors without the bzero of the store
RetrieveAll_CursorsOnly(b) == [b EXCEPT !.readPos_ = 0, !.writePos_ = 0]

\* Buffer::RetrieveAll
RetrieveAll(b) == [buffer_ |-> Zeros(Len(b.buffer_)), readPos_ |-> 0, writePos_ |-> 0]

\* the string built from the start of the store instead of Peek()
RetrieveAllToStr_FromStart(b) == Bytes(b.buffer_, 0, ReadableBytes(b))

\* the string RetrieveAllToStr builds: std::string str(Peek(), ReadableBytes())
RetrieveAllToStr(b) == Bytes(b.buffer_, Peek(b), Peek(b) + ReadableBytes(b))

\* Buffer::HasWritten
HasWritten(b, len) == [b EXCEPT !.writePos_ = (@ + len) % SizeMod]

\* the test of MakeSpace_ sending a request of exactly the free space to resize
MustGrow_OrEqual(b, len) == WritableBytes(b) + PrependableBytes(b) <= len

\* the test of MakeSpace_ (line 151): true takes the resize branch, false the
\* compaction branch
MustGrow(b, len) == WritableBytes(b) + PrependableBytes(b) < len

\* the test of EnsureWriteable calling MakeSpace_ for a request of exactly the
\* writable space
NeedsSpace_OrEqual(b, len) == WritableBytes(b) <= len

\* the test of EnsureWriteable (line 91): true calls MakeSpace_
NeedsSpace(b, len) == WritableBytes(b) < len

\* MakeSpace_ growing the store without the spare byte
MakeSpace_NoSpare(b, len) ==
    IF WritableBytes(b) + PrependableBytes(b) < len
    THEN [b EXCEPT !.buffer_ = Resize(@, b.writePos_ + len)]
    ELSE LET readable == ReadableBytes(b)
         IN [buffer_ |-> StdCopyWithin(b.buffer_, b.readPos_, b.writePos_, 0),
             readPos_ |-> 0, writePos_ |-> 0 + readable]

\* MakeSpace_ resetting the cursors without copying the readable bytes down
MakeSpace_NoCopy(b, len) ==
    IF WritableBytes(b) + PrependableBytes(b) < len
    THEN [b EXCEPT !.buffer_ = Resize(@, b.writePos_ + len + 1)]
    ELSE [b EXCEPT !.readPos_ = 0, !.writePos_ = ReadableBytes(b)]

\* MakeSpace_ copying the readable bytes down but leaving writePos_ where it was
MakeSpace_StaleWritePos(b, len) ==
    IF WritableBytes(b) + PrependableBytes(b) < len
    THEN [b EXCEPT !.buffer_ = Resize(@, b.writePos_ + len + 1)]
    ELSE [b EXCEPT !.buffer_ = StdCopyWithin(@, b.readPos_, b.writePos_, 0),
                   !.readPos_ = 0]

\* MakeSpace_ resizing to len + 1, the write position forgotten
MakeSpace_ResizeToLen(b, len) ==
    IF WritableBytes(b) + PrependableBytes(b) < len
    THEN [b EXCEPT !.buffer_ = Resize(@, len + 1)]
    ELSE [buffer_ |-> StdCopyWithin(b.buffer_, b.readPos_, b.writePos_, 0),
          readPos_ |-> 0,
          writePos_ |-> ReadableBytes(b)]

\* Buffer::MakeSpace_
MakeSpace_(b, len) ==
    IF MustGrow(b, len)
    THEN [b EXCEPT !.buffer_ = Resize(@, b.writePos_ + len + 1)]
    ELSE LET readable == ReadableBytes(b)
         IN [buffer_ |-> StdCopyWithin(b.buffer_, b.readPos_, b.writePos_, 0),
             readPos_ |-> 0,
             writePos_ |-> 0 + readable]

\* EnsureWriteable making space only when the free space before and after the
\* readable bytes is short in total
EnsureWriteable_TotalFree(b, len) ==
    IF WritableBytes(b) + PrependableBytes(b) < len THEN MakeSpace_(b, len) ELSE b

\* Buffer::EnsureWriteable, up to its closing assertion
EnsureWriteable(b, len) ==
    IF NeedsSpace(b, len) THEN MakeSpace_(b, len) ELSE b

\* the closing assertion of EnsureWriteable
EnsureWriteableAssert(b, len) == WritableBytes(EnsureWriteable(b, len)) >= len

\* Buffer::Append(const char* str, size_t len), after assert(str)
BufferAppend(b, str) ==
    LET e == EnsureWriteable(b, Len(str))
    IN HasWritten([e EXCEPT !.buffer_ = StdCopyInto(@, str, BeginWrite(e))], Len(str))

\* the copy of Append stays inside the store
AppendInStore(b, str) ==
    LET e == EnsureWriteable(b, Len(str))
    IN Len(str) = 0 \/ (InBounds(e) /\ e.writePos_ + Len(str) <= Len(e.buffer_))

\* readv(fd, iov, 2) delivering the bytes d: the first WritableBytes() of them
\* land in the store's tail, the rest in the local array buff
ReadvStore(b, d) == StdCopyInto(b.buffer_, Take(d, WritableBytes(b)), b.writePos_)

ReadvBuff(b, d) == Drop(d, WritableBytes(b))

\* ReadFd whose overflow branch does not move writePos_ to the end of the store
ReadFd_KeepsWritePos(b, len, d) ==
    LET writable == WritableBytes(b)
    IN IF len < 0 THEN b
       ELSE IF len <= writable
       THEN [b EXCEPT !.buffer_ = ReadvStore(b, d), !.writePos_ = (@ + len) % SizeMod]
       ELSE BufferAppend([b EXCEPT !.buffer_ = ReadvStore(b, d)],
                         Take(ReadvBuff(b, d), len - writable))

\* ReadFd reclaiming the prependable region after a transfer that fits
ReadFd_CompactsWhenFits(b, len, d) ==
    LET writable == WritableBytes(b)
        fits == [b EXCEPT !.buffer_ = ReadvStore(b, d), !.writePos_ = (@ + len) % SizeMod]
    IN IF len < 0 THEN b
       ELSE IF len <= writable
       THEN IF b.readPos_ > 0 THEN MakeSpace_(fits, 0) ELSE fits
       ELSE BufferAppend([b EXCEPT !.buffer_ = ReadvStore(b, d), !.writePos_ = Len(b.buffer_)],
                         Take(ReadvBuff(b, d), len - writable))

\* Buffer::ReadFd when readv returns len and has delivered the bytes d
ReadFd(b, len, d) ==
    LET writable == WritableBytes(b)
    IN IF len < 0 THEN b
       ELSE IF len <= writable
       THEN [b EXCEPT !.buffer_ = ReadvStore(b, d), !.writePos_ = (@ + len) % SizeMod]
       ELSE BufferAppend([b EXCEPT !.buffer_ = ReadvStore(b, d), !.writePos_ = Len(b.buffer_)],
                         Take(ReadvBuff(b, d), len - writable))

\* the closing assertion of the EnsureWriteable that ReadFd's Append runs
ReadFdAssert(b, len) ==
    \/ len <= WritableBytes(b)
    \/ EnsureWriteableAssert([b EXCEPT !.writePos_ = Len(b.buffer_)], len - WritableBytes(b))

\* ReadFd calling readv again after a failed call
ReadFdSyscalls_RetriesFailure(len) == IF len < 0 THEN 2 ELSE 1

\* the number of readv calls ReadFd makes when the first returns len: the one of
\* line 110, on a path without loop
ReadFdSyscalls(len) == 1

\* WriteFd calling write again after a short write
WriteFdSyscalls_RetriesShort(len, readSize) == IF 0 <= len /\ len < readSize THEN 2 ELSE 1

\* the number of write calls WriteFd makes when the first returns len of the
\* readSize bytes offered: the one of line 129, on a path without loop
WriteFdSyscalls(len, readSize) == 1

\* the value ReadFd returns when readv returns len
ReadFdReturn(len) == len

\* the caller's slot after ReadFd, when readv returns len and sets errno to e
ReadFdErrno(len, e, slot) == IF len < 0 THEN e ELSE slot

\* the value WriteFd returns when write returns len
WriteFdReturn(len) == len

\* the caller's slot after WriteFd, when write returns len and sets errno to e
WriteFdErrno(len, e, slot) == IF len < 0 THEN e ELSE slot

\* WriteFd retiring all it offered, whatever write accepted
WriteFd_RetiresAll(b, len) ==
    IF len < 0 THEN b ELSE [b EXCEPT !.readPos_ = (@ + ReadableBytes(b)) % SizeMod]

\* WriteFd adding write's result to readPos_ without testing its sign
WriteFd_NoFailureCheck(b, len) == [b EXCEPT !.readPos_ = (@ + len) % SizeMod]

\* WriteFd rewinding both cursors once the descriptor has accepted everything
WriteFd_ResetsWhenDrained(b, len) ==
    IF len < 0 THEN b
    ELSE IF len = ReadableBytes(b) THEN [b EXCEPT !.readPos_ = 0, !.writePos_ = 0]
    ELSE [b EXCEPT !.readPos_ = (@ + len) % SizeMod]

\* Buffer::WriteFd when write returns len
WriteFd(b, len) ==
    IF len < 0 THEN b ELSE [b EXCEPT !.readPos_ = (@ + len) % SizeMod]

\* the region WriteFd passes to write(): Peek(), ReadableBytes()
WriteFdOffer(b) == Bytes(b.buffer_, Peek(b), Peek(b) + ReadableBytes(b))

\* which branch EnsureWriteable(len) takes on b
SpaceMade(b, len) ==
    IF ~NeedsSpace(b, len) THEN "none"
    ELSE IF MustGrow(b, len) THEN "resize"
    ELSE "compact"

(* ------------------------------ calls --------------------------------- *)
\* op.arg: the length or offset argument; op.null: Append was given a null pointer;
\* op.data: the bytes appended, delivered by readv or offered to write;
\* op.ret: the value returned; op.out: the string returned or the bytes write accepted;
\* op.errno: the errno a failed readv or write set;
\* op.saveErrno: the caller's error slot after the call (it held 0 before);
\* op.space: what MakeSpace_ did during the call;
\* op.syscalls: the number of readv or write calls made during the call
NoCall ==
    [name |-> "Buffer", arg |-> 0, null |-> FALSE, data |-> <<>>, ret |-> 0,
     out |-> <<>>, errno |-> 0, saveErrno |-> 0, space |-> "none", syscalls |-> 0]

Call(name, arg, data, ret, out) ==
    [NoCall EXCEPT !.name = name, !.arg = arg, !.data = data, !.ret = ret, !.out = out]

\* the object becomes b
Install(b) ==
    /\ buffer_' = b.buffer_
    /\ readPos_' = b.readPos_
    /\ writePos_' = b.writePos_

\* the call ends the process: a failed assertion, or undefined behaviour
Stop(how) ==
    /\ pc' = how
    /\ UNCHANGED <<buffer_, readPos_, writePos_>>

\* the bytes in the buffer after the call, when the cursors lie inside the store
Track(s) == fifo' = IF InBounds(Self) /\ InBounds(Self') THEN s ELSE <<>>

NoRun ==
    /\ runOrig' = <<>>
    /\ runSent' = <<>>

Init ==
    /\ \E initBuffersize \in 1..MaxInit :
          /\ buffer_ = Buffer(initBuffersize).buffer_
          /\ readPos_ = Buffer(initBuffersize).readPos_
          /\ writePos_ = Buffer(initBuffersize).writePos_
    /\ pc = "run"
    /\ op = NoCall
    /\ fifo = <<>>
    /\ runOrig = <<>>
    /\ runSent = <<>>

\* Retrieve(len): assert(len <= ReadableBytes()); readPos_ += len
CallRetrieve ==
    /\ pc = "run"
    /\ \E len \in 0..MaxLen :
          /\ op' = Call("Retrieve", len, <<>>, 0, <<>>)
          /\ IF RetrieveAssert(Self, len)
             THEN /\ Install(Retrieve(Self, len))
                  /\ pc' = "run"
                  /\ Track(Drop(fifo, len))
             ELSE /\ Stop("aborted")
                  /\ UNCHANGED fifo
    /\ NoRun

\* RetrieveUntil(end): assert(Peek() <= end); Retrieve(end - Peek())
\* end is an offset from BeginPtr_()
CallRetrieveUntil ==
    /\ pc = "run"
    /\ \E end \in 0..(MaxSize + 1) :
          /\ op' = Call("RetrieveUntil", end, <<>>, 0, <<>>)
          /\ IF /\ RetrieveUntilAssert(Self, end)
                /\ RetrieveAssert(Self, (end - Peek(Self)) % SizeMod)
             THEN /\ Install(Retrieve(Self, (end - Peek(Self)) % SizeMod))
                  /\ pc' = "run"
                  /\ Track(Drop(fifo, end - Peek(Self)))
             ELSE /\ Stop("aborted")
                  /\ UNCHANGED fifo
    /\ NoRun

\* RetrieveAll()
CallRetrieveAll ==
    /\ pc = "run"
    /\ op' = Call("RetrieveAll", 0, <<>>, 0, <<>>)
    /\ Install(RetrieveAll(Self))
    /\ fifo' = <<>>
    /\ NoRun
    /\ UNCHANGED pc

\* RetrieveAllToStr(): std::string str(Peek(), ReadableBytes()); RetrieveAll(); return str
CallRetrieveAllToStr ==
    /\ pc = "run"
    /\ IF ReadableBytes(Self) = 0 \/ InBounds(Self)
       THEN /\ op' = Call("RetrieveAllToStr", 0, <<>>, 0, RetrieveAllToStr(Self))
            /\ Install(RetrieveAll(Self))
            /\ fifo' = <<>>
            /\ UNCHANGED pc
       ELSE /\ op' = Call("RetrieveAllToStr", 0, <<>>, 0, <<>>)
            /\ Stop("undefined")
            /\ UNCHANGED fifo
    /\ NoRun

\* HasWritten(len): writePos_ += len, unchecked
CallHasWritten ==
    /\ pc = "run"
    /\ \E len \in 0..MaxLen :
          /\ writePos_ + len <= Len(buffer_) + MaxOver
          /\ op' = Call("HasWritten", len, <<>>, 0, <<>>)
          /\ Install(HasWritten(Self, len))
          /\ Track(fifo \o Bytes(buffer_, writePos_, writePos_ + len))
    /\ NoRun
    /\ UNCHANGED pc

\* Append(str, len), with str a null pointer or the bytes to append
CallAppend ==
    /\ pc = "run"
    /\ \/ /\ op' = [Call("Append", 0, <<>>, 0, <<>>) EXCEPT !.null = TRUE]
          /\ IF AppendAssert(TRUE)
             THEN /\ Stop("undefined")
                  /\ UNCHANGED fifo
             ELSE /\ Stop("aborted")
                  /\ UNCHANGED fifo
       \/ \E str \in Strings(MaxLen) :
             /\ AppendAssert(FALSE)
             /\ Len(EnsureWriteable(Self, Len(str)).buffer_) <= MaxSize
             /\ op' = [Call("Append", Len(str), str, 0, <<>>)
                          EXCEPT !.space = SpaceMade(Self, Len(str))]
             /\ IF ~EnsureWriteableAssert(Self, Len(str))
                THEN /\ Install(EnsureWriteable(Self, Len(str)))
                     /\ pc' = "aborted"
                     /\ UNCHANGED fifo
                ELSE IF ~AppendInStore(Self, str)
                THEN /\ Stop("undefined")
                     /\ UNCHANGED fifo
                ELSE /\ Install(BufferAppend(Self, str))
                     /\ pc' = "run"
                     /\ Track(fifo \o str)
    /\ NoRun

\* EnsureWriteable(len)
CallEnsureWriteable ==
    /\ pc = "run"
    /\ \E len \in 0..MaxLen :
          /\ Len(EnsureWriteable(Self, len).buffer_) <= MaxSize
          /\ op' = [Call("EnsureWriteable", len, <<>>, 0, <<>>)
                       EXCEPT !.space = SpaceMade(Self, len)]
          /\ Install(EnsureWriteable(Self, len))
          /\ pc' = IF EnsureWriteableAssert(Self, len) THEN "run" ELSE "aborted"
          /\ Track(fifo)
    /\ NoRun

\* ReadFd(fd, saveErrno): readv fails with errno e, or delivers the bytes d
CallReadFd ==
    /\ pc = "run"
    /\ \/ \E e \in Errnos :
             /\ op' = [Call("ReadFd", 0, <<>>, ReadFdReturn(-1), <<>>)
                          EXCEPT !.errno = e, !.saveErrno = ReadFdErrno(-1, e, 0),
                                 !.syscalls = ReadFdSyscalls(-1)]
             /\ Install(ReadFd(Self, -1, <<>>))
             /\ pc' = "run"
             /\ UNCHANGED fifo
       \/ \E d \in Strings(MaxSize) :
             /\ InBounds(Self)
             /\ Len(d) <= WritableBytes(Self) + BuffSize
             /\ Len(ReadFd(Self, Len(d), d).buffer_) <= MaxSize
             /\ op' = [Call("ReadFd", 0, d, ReadFdReturn(Len(d)), <<>>)
                          EXCEPT !.saveErrno = ReadFdErrno(Len(d), 0, 0),
                                 !.syscalls = ReadFdSyscalls(Len(d)),
                                 !.space = SpaceMade([Self EXCEPT !.writePos_ = Len(buffer_)],
                                                     Len(d) - WritableBytes(Self))]
             /\ IF ReadFdAssert(Self, Len(d))
                THEN /\ Install(ReadFd(Self, Len(d), d))
                     /\ pc' = "run"
                     /\ Track(fifo \o d)
                ELSE /\ Install(EnsureWriteable(
                          [buffer_ |-> ReadvStore(Self, d), readPos_ |-> readPos_,
                           writePos_ |-> Len(buffer_)], Len(d) - WritableBytes(Self)))
                     /\ pc' = "aborted"
                     /\ UNCHANGED fifo
       \/ /\ ~InBounds(Self)
          /\ op' = Call("ReadFd", 0, <<>>, 0, <<>>)
          /\ Stop("undefined")
          /\ UNCHANGED fifo
    /\ NoRun

\* WriteFd(fd, saveErrno): write fails with errno e, or accepts the first n bytes offered
CallWriteFd ==
    /\ pc = "run"
    /\ \/ /\ ReadableBytes(Self) = 0 \/ InBounds(Self)
          /\ \/ \E e \in Errnos :
                   /\ op' = [Call("WriteFd", 0, WriteFdOffer(Self), WriteFdReturn(-1), <<>>)
                                EXCEPT !.errno = e, !.saveErrno = WriteFdErrno(-1, e, 0),
                                       !.syscalls = WriteFdSyscalls(-1, ReadableBytes(Self))]
                   /\ Install(WriteFd(Self, -1))
                   /\ Track(fifo)
                   /\ UNCHANGED runSent
             \/ \E n \in 0..ReadableBytes(Self) :
                   /\ op' = [Call("WriteFd", 0, WriteFdOffer(Self), WriteFdReturn(n),
                                   Take(WriteFdOffer(Self), n))
                                EXCEPT !.saveErrno = WriteFdErrno(n, 0, 0),
                                       !.syscalls = WriteFdSyscalls(n, ReadableBytes(Self))]
                   /\ Install(WriteFd(Self, n))
                   /\ Track(Drop(fifo, n))
                   /\ runSent' = (IF op.name = "WriteFd" THEN runSent ELSE <<>>)
                                    \o Take(WriteFdOffer(Self), n)
          /\ pc' = "run"
          /\ runOrig' = IF op.name = "WriteFd" THEN runOrig ELSE WriteFdOffer(Self)
       \/ /\ ~(ReadableBytes(Self) = 0 \/ InBounds(Self))
          /\ op' = Call("WriteFd", 0, <<>>, 0, <<>>)
          /\ Stop("undefined")
          /\ NoRun
          /\ UNCHANGED fifo

Next ==
    \/ CallRetrieve
    \/ CallRetrieveUntil
    \/ CallRetrieveAll
    \/ CallRetrieveAllToStr
    \/ CallHasWritten
    \/ CallAppend
    \/ CallEnsureWriteable
    \/ CallReadFd
    \/ CallWriteFd

Spec == Init /\ [][Next]_vars

(* ------------------------------ claims -------------------------------- *)
Store == <<buffer_, readPos_, writePos_>>

\* C1: after every call that returns, 0 <= readPos <= writePos <= store.size()
C1_AnyCallKeepsCursorsInStore == pc = "run" => InBounds(Self)

\* the cursors are in order inside the store after construction, and every call
\* that returns keeps them so, except HasWritten(len) with len > WritableBytes()
CheckedCallsKeepCursorsInStore ==
    /\ InBounds(Self)
    /\ [][(/\ InBounds(Self)
           /\ pc' = "run"
           /\ ~(op'.name = "HasWritten" /\ op'.arg > WritableBytes(Self)))
          => InBounds(Self')]_vars

\* C2: a ReadFd that receives n bytes returns n and leaves the previous readable
\* content followed by the n bytes, in order, also when n > WritableBytes()
C2_ReadFdKeepsEveryByte ==
    [][(op'.name = "ReadFd" /\ op'.ret >= 0 /\ InBounds(Self))
          => /\ pc' = "run"
             /\ op'.ret = Len(op'.data)
             /\ ReadableBytes(Self') = ReadableBytes(Self) + Len(op'.data)
             /\ Readable(Self') = Readable(Self) \o op'.data]_vars

\* C2 witness: a ReadFd received more than was writable, part into the store's tail
\* and part into buff, and the store was resized
C2_Witness ==
    /\ pc = "run"
    /\ op.name = "ReadFd"
    /\ op.space = "resize"
    /\ Len(op.data) >= 2
    /\ op.data[1] # op.data[2]

\* C3: the readable content is the bytes put in and not yet taken out, in order
C3_ReadableIsFifo == (pc = "run" /\ InBounds(Self)) => Readable(Self) = fifo

\* C3 witness: an Append has compacted the store around bytes appended earlier
C3_Witness ==
    /\ pc = "run"
    /\ op.name = "Append"
    /\ op.space = "compact"
    /\ Len(op.data) >= 1
    /\ Len(fifo) >= Len(op.data) + 2

\* C4: WriteFd offers the readable region and retires exactly the n bytes accepted;
\* over a run of consecutive WriteFd calls the bytes accepted, followed by what is
\* still readable, are the content readable when the run began, so a run that has
\* accepted as many bytes as were readable has passed on that content and left
\* ReadableBytes() = 0
C4_WriteFdRetiresWhatWasAccepted ==
    /\ []((op.name = "WriteFd" /\ pc = "run")
             => /\ runSent \o Readable(Self) = runOrig
                /\ Len(runSent) = Len(runOrig)
                      => (runSent = runOrig /\ ReadableBytes(Self) = 0))
    /\ [][(op'.name = "WriteFd" /\ pc' = "run" /\ op'.ret >= 0)
             => /\ op'.data = Readable(Self)
                /\ op'.out = Take(Readable(Self), op'.ret)
                /\ readPos_' = readPos_ + op'.ret
                /\ UNCHANGED <<buffer_, writePos_>>]_vars

\* C4 witness: a short write followed by a write of the rest has drained the buffer
C4_Witness ==
    /\ pc = "run"
    /\ op.name = "WriteFd"
    /\ op.ret > 0
    /\ Len(runOrig) > op.ret
    /\ Len(runSent) = Len(runOrig)

\* C5: a failed ReadFd or WriteFd stores errno in the caller's slot, returns the
\* negative value and leaves the cursors and the store as they were
C5_FailedTransferChangesNothing ==
    [][(op'.name \in {"ReadFd", "WriteFd"} /\ op'.errno # 0)
          => /\ op'.ret < 0
             /\ op'.saveErrno = op'.errno
             /\ pc' = pc
             /\ UNCHANGED Store]_vars

\* C5 witness: a WriteFd has failed after an earlier one was short
C5_Witness ==
    /\ op.name = "WriteFd"
    /\ op.ret < 0
    /\ op.saveErrno = 11
    /\ Len(runSent) > 0
    /\ ReadableBytes(Self) > 0

\* C6: EnsureWriteable(len) with WritableBytes() < len <= WritableBytes() +
\* PrependableBytes() and readPos > 0 keeps the readable content, moves it to offset
\* 0 and leaves WritableBytes() >= len
C6_CompactionKeepsReadable ==
    [][(/\ op'.name = "EnsureWriteable"
        /\ readPos_ > 0
        /\ WritableBytes(Self) < op'.arg
        /\ op'.arg <= WritableBytes(Self) + PrependableBytes(Self))
          => /\ pc' = "run"
             /\ ReadableBytes(Self') = ReadableBytes(Self)
             /\ Readable(Self') = Readable(Self)
             /\ readPos_' = 0
             /\ writePos_' = ReadableBytes(Self)
             /\ WritableBytes(Self') >= op'.arg]_vars

\* C6 witness: EnsureWriteable has compacted a store holding two unread bytes
C6_Witness ==
    /\ pc = "run"
    /\ op.name = "EnsureWriteable"
    /\ op.space = "compact"
    /\ ReadableBytes(Self) >= 2

\* C7: EnsureWriteable(len) with WritableBytes() + PrependableBytes() < len resizes
\* the store to writePos + len + 1, keeps both cursors and the readable content and
\* leaves WritableBytes() >= len
C7_GrowthKeepsReadable ==
    [][(/\ op'.name = "EnsureWriteable"
        /\ WritableBytes(Self) + PrependableBytes(Self) < op'.arg)
          => /\ pc' = "run"
             /\ Len(buffer_') = writePos_ + op'.arg + 1
             /\ UNCHANGED <<readPos_, writePos_>>
             /\ Readable(Self') = Readable(Self)
             /\ WritableBytes(Self') >= op'.arg]_vars

\* C7 witness: EnsureWriteable has resized a store holding unread bytes
C7_Witness ==
    /\ pc = "run"
    /\ op.name = "EnsureWriteable"
    /\ op.space = "resize"
    /\ ReadableBytes(Self) > 0

\* C8: after EnsureWriteable(n), WritableBytes() >= n and a second EnsureWriteable(n)
\* changes nothing; the first call leaves ReadableBytes() as it was
C8_EnsureWriteableIdempotent ==
    /\ [](op.name = "EnsureWriteable"
             => /\ pc = "run"
                /\ WritableBytes(Self) >= op.arg
                /\ EnsureWriteable(Self, op.arg) = Self
                /\ EnsureWriteableAssert(Self, op.arg))
    /\ [][op'.name = "EnsureWriteable"
             => ReadableBytes(Self') = ReadableBytes(Self)]_vars

\* C8 witness: the first EnsureWriteable(2) had to resize the store
C8_Witness ==
    /\ pc = "run"
    /\ op.name = "EnsureWriteable"
    /\ op.space = "resize"
    /\ op.arg = 2
    /\ WritableBytes(Self) > op.arg

\* C9: RetrieveAllToStr returns the readable bytes in order and leaves
\* readPos = writePos = 0 with the store size unchanged
C9_RetrieveAllToStrReturnsReadable ==
    [][(op'.name = "RetrieveAllToStr" /\ pc' = "run")
          => /\ op'.out = Readable(Self)
             /\ ReadableBytes(Self') = 0
             /\ PrependableBytes(Self') = 0
             /\ readPos_' = 0
             /\ writePos_' = 0
             /\ Len(buffer_') = Len(buffer_)]_vars

\* C9 witness: RetrieveAllToStr has returned two bytes
C9_Witness ==
    /\ pc = "run"
    /\ op.name = "RetrieveAllToStr"
    /\ Len(op.out) >= 2
    /\ op.out[1] # op.out[2]

\* C10: Retrieve(len) with len > ReadableBytes(), RetrieveUntil(end) with end outside
\* [Peek(), Peek() + ReadableBytes()] and Append of a null pointer fail an assertion
\* with the cursors and the store unmodified; readPos never exceeds writePos
C10_ContractViolationsFailFast ==
    /\ [](readPos_ <= writePos_)
    /\ [][(\/ op'.name = "Retrieve" /\ op'.arg > ReadableBytes(Self)
           \/ /\ op'.name = "RetrieveUntil"
              /\ \/ op'.arg < Peek(Self)
                 \/ op'.arg > Peek(Self) + ReadableBytes(Self)
           \/ op'.name = "Append" /\ op'.null)
             => /\ pc' = "aborted"
                /\ UNCHANGED Store]_vars

\* C10 witness: RetrieveUntil with end before Peek() has aborted
C10_Witness ==
    /\ pc = "aborted"
    /\ op.name = "RetrieveUntil"
    /\ op.arg < readPos_
    /\ ReadableBytes(Self) > 0

\* C11: Retrieve(len) with len <= ReadableBytes() advances readPos by len and changes
\* nothing else; after retrieving everything readable, ReadableBytes() = 0 and
\* PrependableBytes() is the write position, not 0
C11_RetrieveOnlyAdvancesReadPos ==
    [][(op'.name = "Retrieve" /\ op'.arg <= ReadableBytes(Self))
          => /\ pc' = "run"
             /\ readPos_' = readPos_ + op'.arg
             /\ UNCHANGED <<buffer_, writePos_>>
             /\ op'.arg = ReadableBytes(Self)
                   => /\ ReadableBytes(Self') = 0
                      /\ PrependableBytes(Self') = writePos_]_vars

\* C11 witness: Retrieve has taken everything readable and the cursors stay where
\* the write position was
C11_Witness ==
    /\ pc = "run"
    /\ op.name = "Retrieve"
    /\ op.arg = 2
    /\ ReadableBytes(Self) = 0
    /\ PrependableBytes(Self) >= 2

\* C12: no call makes the store smaller
C12_StoreNeverShrinks == [][Len(buffer_') >= Len(buffer_)]_vars

\* C12 witness: RetrieveAll has run on a store that had grown
C12_Witness ==
    /\ pc = "run"
    /\ op.name = "RetrieveAll"
    /\ Len(buffer_) > MaxInit

\* a cursor moves back: readPos from a nonzero value to 0, or writePos decreases
CursorMovesBack ==
    \/ readPos_ > 0 /\ readPos_' = 0
    \/ writePos_' < writePos_

\* C13: every step in which readPos changes from nonzero to 0 or writePos decreases
\* is a RetrieveAll or RetrieveAllToStr call
C13_OnlyFullResetMovesCursorsBack ==
    [][CursorMovesBack => op'.name \in {"RetrieveAll", "RetrieveAllToStr"}]_vars

\* C13, amended: every step in which readPos changes from nonzero to 0 or writePos
\* decreases is a RetrieveAll or RetrieveAllToStr call, or an EnsureWriteable, Append
\* or ReadFd call whose MakeSpace_ compacts, which sets readPos to 0 with the readable
\* bytes kept; no Retrieve, RetrieveUntil, HasWritten or WriteFd step moves a cursor back
C13_CursorsMoveBackByResetOrCompaction ==
    [][CursorMovesBack
          => \/ op'.name \in {"RetrieveAll", "RetrieveAllToStr"}
             \/ /\ op'.name \in {"EnsureWriteable", "Append", "ReadFd"}
                /\ op'.space = "compact"
                /\ readPos_ > 0
                /\ readPos_' = 0
                /\ ReadableBytes(Self') >= ReadableBytes(Self)
                /\ Take(Readable(Self'), ReadableBytes(Self)) = Readable(Self)]_vars

\* C13 witness: a ReadFd has compacted the store, moving readPos back to 0
C13_Witness ==
    /\ pc = "run"
    /\ op.name = "ReadFd"
    /\ op.space = "compact"
    /\ readPos_ = 0
    /\ ReadableBytes(Self) > Len(op.data)

C15_ReadFdThatFitsOnlyAdvancesWritePos ==
    [][(/\ op'.name = "ReadFd"
        /\ pc' = "run"
        /\ op'.ret >= 0
        /\ op'.ret <= WritableBytes(Self))
          => /\ writePos_' = writePos_ + op'.ret
             /\ readPos_' = readPos_
             /\ Len(buffer_') = Len(buffer_)
             /\ op'.space = "none"
             /\ Bytes(buffer_', 0, writePos_) = Bytes(buffer_, 0, writePos_)
             /\ Readable(Self') = Readable(Self) \o op'.data
             /\ Bytes(buffer_', writePos_', Len(buffer_)) = Bytes(buffer_, writePos_', Len(buffer_))]_vars

\* C15 witness: a ReadFd has received bytes that fitted while consumed space lay
\* in front of the readable bytes
C15_Witness ==
    /\ pc = "run"
    /\ op.name = "ReadFd"
    /\ op.space = "none"
    /\ op.ret >= 1
    /\ readPos_ > 0
    /\ ReadableBytes(Self) > Len(op.data)

\* C16: after RetrieveAll or RetrieveAllToStr every byte of the store, over its
\* full size, is zero and readPos_ = writePos_ = 0
C16_RetrieveAllLeavesNoPayload ==
    (pc = "run" /\ op.name \in {"RetrieveAll", "RetrieveAllToStr"})
       => /\ \A i \in 1..Len(buffer_) : buffer_[i] = 0
          /\ readPos_ = 0
          /\ writePos_ = 0

\* C16 witness: RetrieveAllToStr has returned payload from a store that also held
\* bytes outside the readable region
C16_Witness ==
    /\ pc = "run"
    /\ op.name = "RetrieveAllToStr"
    /\ Len(op.out) >= 1
    /\ Len(buffer_) > Len(op.out)
    /\ buffer_ = Zeros(Len(buffer_))

\* C17: a ReadFd that receives n > w bytes, w being WritableBytes() before the
\* call, fills the store to its end and appends the n - w bytes of the scratch
\* area: with PrependableBytes() >= n - w the store is compacted and keeps its
\* size, otherwise it grows to exactly its old size + (n - w) + 1 and readPos_
\* is unchanged; either way writePos_ - readPos_ increases by exactly n
C17_ReadFdOverflowCompactsOrGrows ==
    [][(/\ op'.name = "ReadFd"
        /\ pc' = "run"
        /\ op'.ret > WritableBytes(Self))
          => LET n == op'.ret
                 w == WritableBytes(Self)
             IN /\ IF PrependableBytes(Self) >= n - w
                   THEN /\ op'.space = "compact"
                        /\ Len(buffer_') = Len(buffer_)
                        /\ readPos_' = 0
                        /\ writePos_' = ReadableBytes(Self) + n
                   ELSE /\ op'.space = "resize"
                        /\ Len(buffer_') = Len(buffer_) + (n - w) + 1
                        /\ readPos_' = readPos_
                        /\ writePos_' = Len(buffer_) + (n - w)
                /\ writePos_' - readPos_' = (writePos_ - readPos_) + n
                /\ Readable(Self') = Readable(Self) \o op'.data]_vars

\* C17 witness: a ReadFd has received more than the store could take after
\* bytes not yet read, and the store has grown
C17_Witness ==
    /\ pc = "run"
    /\ op.name = "ReadFd"
    /\ op.space = "resize"
    /\ op.ret = Len(op.data)
    /\ ReadableBytes(Self) > op.ret
    /\ WritableBytes(Self) = 1

\* the length EnsureWriteable is asked for in the step to op', and the buffer it
\* is asked on: ReadFd asks for what overflowed, with writePos_ at the store's end
Requested == CASE op'.name = "EnsureWriteable" -> op'.arg
               [] op'.name = "Append" -> Len(op'.data)
               [] op'.name = "ReadFd" -> op'.ret - WritableBytes(Self)
               [] OTHER -> 0

AskedOn == IF op'.name = "ReadFd" THEN [Self EXCEPT !.writePos_ = Len(buffer_)] ELSE Self

\* C18: a step that changes the size of the store is an EnsureWriteable, Append
\* or ReadFd whose requested length exceeded WritableBytes() + PrependableBytes()
\* at the growth decision; such a call with a requested length within
\* WritableBytes() + PrependableBytes() leaves the size as it was
C18_ResizeOnlyWhenReclaimingCannotServe ==
    [][/\ Len(buffer_') # Len(buffer_)
          => /\ op'.name \in {"EnsureWriteable", "Append", "ReadFd"}
             /\ pc' = "run"
             /\ ~op'.null
             /\ Requested > WritableBytes(AskedOn) + PrependableBytes(AskedOn)
       /\ (/\ op'.name \in {"EnsureWriteable", "Append", "ReadFd"}
           /\ Requested <= WritableBytes(AskedOn) + PrependableBytes(AskedOn))
             => Len(buffer_') = Len(buffer_)]_vars

\* C18 witness: an Append of exactly the free space has been served by
\* compaction, the store full and as large as before
C18_Witness ==
    /\ pc = "run"
    /\ op.name = "Append"
    /\ op.space = "compact"
    /\ Len(op.data) = 2
    /\ WritableBytes(Self) = 0
    /\ readPos_ = 0

\* C19: MakeSpace_ takes its compaction branch only with readPos_ > 0, so the
\* copy of [readPos_, writePos_) to offset 0 goes to a strictly lower offset and
\* its destination does not start inside the source; when EnsureWriteable calls
\* MakeSpace_ with readPos_ = 0, the growth branch is taken
C19_CompactionOnlyWithConsumedPrefix ==
    [][(op'.name \in {"EnsureWriteable", "Append", "ReadFd"} /\ pc' = "run" /\ ~op'.null)
          => /\ op'.space = "compact"
                => /\ Peek(AskedOn) > 0
                   /\ ~(Peek(AskedOn) <= 0 /\ 0 < BeginWrite(AskedOn))
                   /\ readPos_' = 0
             /\ (NeedsSpace(AskedOn, Requested) /\ readPos_ = 0)
                => /\ op'.space = "resize"
                   /\ Len(buffer_') > Len(buffer_)
                   /\ readPos_' = 0]_vars

\* C19 witness: EnsureWriteable has called MakeSpace_ on a full store with
\* nothing consumed, and the store has grown
C19_Witness ==
    /\ pc = "run"
    /\ op.name = "EnsureWriteable"
    /\ op.space = "resize"
    /\ op.arg = 1
    /\ readPos_ = 0
    /\ writePos_ = 1
    /\ Len(buffer_) = 3

====
